---- MODULE Spec2Model ----
(***************************************************************************)
(* Model of src/lib/make_svg.rs: make_svg and the layer builders it calls. *)
(*                                                                         *)
(* f64 quantities are held as exact fixed-point integers in units of       *)
(* 1/Unit (0.64 is 640); a quotient of two such values is held as the      *)
(* pair <<numerator, denominator>>.  Text is a sequence of character       *)
(* codes.  A HashMap / HashSet is held as the sequence of its entries in   *)
(* iteration order: the contents are the set of entries, the order is the  *)
(* part the hasher chooses.                                                *)
(***************************************************************************)
EXTENDS Integers, Sequences, FiniteSets, TLC

VARIABLES sgf, options, pc, goban, x_range, y_range, result, doc, underflow

vars == <<sgf, options, pc, goban, x_range, y_range, result, doc, underflow>>

(* ------------------------------ bounds -------------------------------- *)
MaxCols == 27
MaxRows == 101
MaxMoveNumber == 199
MaxSmallNumber == 3
MaxFirst == 3

(* ----------------------------- constants ------------------------------ *)
Unit == 10 * 100
BOARD_MARGIN == 640
LABEL_MARGIN == 800
MaxLabelWidth == 25
MaxLabelHeight == 99
Wrap == 99
ByteA == 65
ByteB == 66
ByteI == 73
Byte0 == 48
U8 == 256

(* ------------------------------ helpers ------------------------------- *)
Range(s) == {s[i] : i \in 1..Len(s)}

Some(v) == <<v>>
None == <<>>

U8Add(a, b) == (a + b) % U8
U8Sub(a, b) == (a - b + U8) % U8

Max(nums) == CHOOSE m \in Range(nums) : \A k \in Range(nums) : k <= m

Last(nums) == nums[Len(nums)]

RECURSIVE LexLess(_, _)
LexLess(a, b) ==
    IF b = <<>> THEN FALSE
    ELSE IF a = <<>> THEN TRUE
    ELSE IF Head(a) < Head(b) THEN TRUE
    ELSE IF Head(a) > Head(b) THEN FALSE
    ELSE LexLess(Tail(a), Tail(b))

RECURSIVE Insert(_, _, _)
Insert(e, sorted, key) ==
    IF sorted = <<>> THEN <<e>>
    ELSE IF LexLess(key[e], key[Head(sorted)]) THEN <<e>> \o sorted
    ELSE <<Head(sorted)>> \o Insert(e, Tail(sorted), key)

RECURSIVE StableSort(_, _)
StableSort(s, key) ==
    IF s = <<>> THEN <<>>
    ELSE Insert(Last(s), StableSort(SubSeq(s, 1, Len(s) - 1), key), key)

RECURSIVE to_string(_)
to_string(n) ==
    IF n < 10 THEN <<Byte0 + n>>
    ELSE to_string(n \div 10) \o <<Byte0 + (n % 10)>>

(* keys of the orderings the builders sort by *)
PointKey(p) == <<p[1], p[2]>>
PairKey(l) == <<l[1][1], l[1][2], l[2][1], l[2][2]>>
LabelKey(l) == <<l[1][1], l[1][2]>> \o l[2]
MaxKey(e) == <<Max(e[2])>>

(* goban.stones.get(point).copied() *)
StoneAt(g, p) ==
    IF \E i \in 1..Len(g.stones) : g.stones[i][1] = p
    THEN Some((CHOOSE e \in Range(g.stones) : e[1] = p)[2])
    ELSE None

SeqOver(a, b, F(_)) == [i \in 1..(b - a) |-> F(a + i - 1)]

MapSeq(s, F(_)) == [i \in 1..Len(s) |-> F(s[i])]

KeyOf(s, K(_)) == [e \in Range(s) |-> K(e)]

(* ---------------------------- draw_* ---------------------------------- *)
(* variant: the Fancy shadow is offset by 0.05 instead of 0.025 *)
draw_stone_far_shadow(stone, style) ==
    IF style = "Fancy"
    THEN [circles |-> << [cx |-> stone.x * Unit + 50, cy |-> stone.y * Unit + 50, r |-> 475],
                         [cx |-> stone.x * Unit - 17, cy |-> stone.y * Unit - 17, r |-> 475] >>,
          fill |-> stone.color]
    ELSE [circles |-> << [cx |-> stone.x * Unit, cy |-> stone.y * Unit, r |-> 480] >>,
          fill |-> stone.color]

draw_stone(stone, style) ==
    IF style = "Fancy"
    THEN [circles |-> << [cx |-> stone.x * Unit + 25, cy |-> stone.y * Unit + 25, r |-> 475],
                         [cx |-> stone.x * Unit - 17, cy |-> stone.y * Unit - 17, r |-> 475] >>,
          fill |-> stone.color]
    ELSE [circles |-> << [cx |-> stone.x * Unit, cy |-> stone.y * Unit, r |-> 480] >>,
          fill |-> stone.color]

draw_move_number(x, y, n, color, style) ==
    [x |-> x * Unit, y |-> y * Unit, text |-> to_string(n),
     color |-> color, backing |-> (color = None)]

draw_markup(x, y, color, style) ==
    [x |-> x * Unit, y |-> y * Unit, color |-> color]

dim_square(x, y) ==
    [x |-> x * Unit - 500, y |-> y * Unit - 500, width |-> Unit, height |-> Unit]

draw_label(x, y, text, color, style) ==
    [x |-> x * Unit, y |-> y * Unit,
     text |-> SubSeq(text, 1, IF Len(text) < 2 THEN Len(text) ELSE 2),
     color |-> color, backing |-> (color = None)]

draw_line(l) ==
    [x1 |-> l[1][1] * Unit, x2 |-> l[2][1] * Unit,
     y1 |-> l[1][2] * Unit, y2 |-> l[2][2] * Unit]

(* --------------------------- build_* ---------------------------------- *)
build_board_lines_group(g, opts) ==
    [id |-> "lines",
     elems |->
        SeqOver(0, g.size[1], LAMBDA x :
            [x1 |-> x * Unit, y1 |-> 0, x2 |-> x * Unit,
             y2 |-> U8Sub(g.size[2], 1) * Unit])
        \o
        SeqOver(0, g.size[2], LAMBDA y :
            [x1 |-> 0, y1 |-> y * Unit, x2 |-> U8Sub(g.size[1], 1) * Unit,
             y2 |-> y * Unit])]

build_stones_group(g, opts) ==
    [id |-> "stones",
     elems |-> MapSeq(g.stones, LAMBDA e :
                  draw_stone([x |-> e[1][1], y |-> e[1][2], color |-> e[2]], opts.style))]


(* variant: the threshold test is dropped *)
ShowNumberAlways(n, first) == TRUE

(* the test of line 233 *)
ShowNumber(n, first) == n >= first


(* variant: wraps at 100 instead of 99 *)
starting_num_mod100(n, first) ==
    IF n >= first THEN ((n - first) % (Wrap + 1)) + 1
    ELSE ((16 + Wrap * (1 + first) + n - first) % (Wrap + 1)) + 1

(* (n - first_move_number) % 99 + 1 on u64; 2^64 mod 99 = 16 *)
starting_num(n, first) ==
    IF n >= first THEN ((n - first) % Wrap) + 1
    ELSE ((16 + Wrap * (1 + first) + n - first) % Wrap) + 1

(* the entry of a point's history that line 230 reads *)
ShownEntry(nums) == Last(nums)

build_move_numbers_group(g, opts) ==
    LET move_numbers == StableSort(g.move_numbers, KeyOf(g.move_numbers, MaxKey))
        shown == SelectSeq(move_numbers,
                    LAMBDA e : ShowNumber(ShownEntry(e[2]), opts.first_move_number))
    IN  [id |-> "move-numbers",
         elems |-> MapSeq(shown, LAMBDA e :
                      draw_move_number(e[1][1], e[1][2],
                          starting_num(ShownEntry(e[2]), opts.first_move_number),
                          StoneAt(g, e[1]), opts.style))]

(* TRUE iff line 235 subtracts with n < first_move_number *)
Underflows(g, opts) ==
    \E e \in Range(g.move_numbers) :
        /\ ShowNumber(ShownEntry(e[2]), opts.first_move_number)
        /\ ShownEntry(e[2]) < opts.first_move_number

PointLayer(id, points, g, opts) ==
    [id |-> id,
     elems |-> MapSeq(StableSort(points, KeyOf(points, PointKey)),
                  LAMBDA p : draw_markup(p[1], p[2], StoneAt(g, p), opts.style))]

build_marks_group(g, opts) == PointLayer("markup-marks", g.marks, g, opts)
build_triangles_group(g, opts) == PointLayer("markup-triangles", g.triangles, g, opts)
build_circles_group(g, opts) == PointLayer("markup-circles", g.circles, g, opts)
build_squares_group(g, opts) == PointLayer("markup-squares", g.squares, g, opts)
build_selected_group(g, opts) == PointLayer("markup-selected", g.selected, g, opts)

build_dimmed_group(g, opts) ==
    [id |-> "markup-dimmed",
     elems |-> MapSeq(StableSort(g.dimmed, KeyOf(g.dimmed, PointKey)),
                  LAMBDA p : dim_square(p[1], p[2]))]

build_label_group(g, opts) ==
    [id |-> "markup-labels",
     elems |-> MapSeq(StableSort(g.labels, KeyOf(g.labels, LabelKey)),
                  LAMBDA e : draw_label(e[1][1], e[1][2], e[2], StoneAt(g, e[1]), opts.style))]

build_line_group(g, opts) ==
    [id |-> "markup-lines",
     elems |-> MapSeq(StableSort(g.lines, KeyOf(g.lines, PairKey)), draw_line)]

build_arrow_group(g, opts) ==
    [id |-> "markup-arrows",
     elems |-> MapSeq(StableSort(g.arrows, KeyOf(g.arrows, PairKey)), draw_line)]

AddIf(flag, group, layer) == IF flag THEN Append(group, layer) ELSE group


(* variant: the selection layer is added before the marks layer *)
build_board_swapped(g, opts) ==
    LET g0  == << build_board_lines_group(g, opts), build_stones_group(g, opts) >>
        g1  == AddIf(opts.draw_move_numbers, g0, build_move_numbers_group(g, opts))
        g2  == AddIf(opts.draw_selected, g1, build_selected_group(g, opts))
        g3  == AddIf(opts.draw_triangles, g2, build_triangles_group(g, opts))
        g4  == AddIf(opts.draw_circles, g3, build_circles_group(g, opts))
        g5  == AddIf(opts.draw_squares, g4, build_squares_group(g, opts))
        g6  == AddIf(opts.draw_marks, g5, build_marks_group(g, opts))
        g7  == AddIf(opts.draw_dimmed, g6, build_dimmed_group(g, opts))
        g8  == AddIf(opts.draw_labels, g7, build_label_group(g, opts))
        g9  == AddIf(opts.draw_lines, g8, build_line_group(g, opts))
        g10 == AddIf(opts.draw_arrows, g9, build_arrow_group(g, opts))
    IN  g10

build_board(g, opts) ==
    LET g0  == << build_board_lines_group(g, opts), build_stones_group(g, opts) >>
        g1  == AddIf(opts.draw_move_numbers, g0, build_move_numbers_group(g, opts))
        g2  == AddIf(opts.draw_marks, g1, build_marks_group(g, opts))
        g3  == AddIf(opts.draw_triangles, g2, build_triangles_group(g, opts))
        g4  == AddIf(opts.draw_circles, g3, build_circles_group(g, opts))
        g5  == AddIf(opts.draw_squares, g4, build_squares_group(g, opts))
        g6  == AddIf(opts.draw_selected, g5, build_selected_group(g, opts))
        g7  == AddIf(opts.draw_dimmed, g6, build_dimmed_group(g, opts))
        g8  == AddIf(opts.draw_labels, g7, build_label_group(g, opts))
        g9  == AddIf(opts.draw_lines, g8, build_line_group(g, opts))
        g10 == AddIf(opts.draw_arrows, g9, build_arrow_group(g, opts))
    IN  g10

(* ------------------------- board edge labels -------------------------- *)
label_text(x) ==
    IF U8Add(x, ByteA) < ByteI THEN <<U8Add(x, ByteA)>> ELSE <<U8Add(x, ByteB)>>

(* variant: the row labels are placed top to bottom in increasing order *)
draw_board_labels_unreversed(xr, yr, style) ==
    [transform |-> <<LABEL_MARGIN, LABEL_MARGIN>>,
     row_labels |-> SeqOver(xr.start, xr.end, LAMBDA x :
        [x |-> U8Sub(x, xr.start) * Unit + BOARD_MARGIN, y |-> 0, text |-> label_text(x)]),
     column_labels |-> SeqOver(yr.start, yr.end, LAMBDA y :
        [x |-> 0, y |-> U8Sub(y, yr.start) * Unit + BOARD_MARGIN,
         text |-> to_string(y)])]

draw_board_labels(xr, yr, style) ==
    [transform |-> <<LABEL_MARGIN, LABEL_MARGIN>>,
     row_labels |-> SeqOver(xr.start, xr.end, LAMBDA x :
        [x |-> U8Sub(x, xr.start) * Unit + BOARD_MARGIN, y |-> 0, text |-> label_text(x)]),
     column_labels |-> SeqOver(yr.start, yr.end, LAMBDA y :
        [x |-> 0, y |-> U8Sub(U8Sub(yr.end, y), 1) * Unit + BOARD_MARGIN,
         text |-> to_string(y)])]


(* variant: rows are numbered from the bottom of the cropped region *)
LabelRowsCropped(size, height, yr) == [start |-> 1, end |-> U8Add(height, 1)]

(* the row numbers handed to draw_board_labels, line 102 *)
LabelRows(size, height, yr) ==
    [start |-> U8Add(U8Sub(U8Sub(size[2], height), yr.start), 1),
     end   |-> U8Add(U8Sub(size[2], yr.start), 1)]


(* variant: the limits themselves are rejected *)
UnlabellableAtLimit(width, height) ==
    width >= MaxLabelWidth \/ height >= MaxLabelHeight

(* the test of line 46 *)
Unlabellable(width, height) == width > MaxLabelWidth \/ height > MaxLabelHeight

LabelMargin(opts) == IF opts.draw_board_labels THEN LABEL_MARGIN ELSE 0


(* variant: the label margin is left out of the extent *)
BoardExtentNoLabels(n, label_margin) == n * Unit - Unit + 2 * BOARD_MARGIN

BoardExtent(n, label_margin) == n * Unit - Unit + 2 * BOARD_MARGIN + label_margin

Document(g, opts, xr, yr) ==
    LET width == U8Sub(xr.end, xr.start)
        height == U8Sub(yr.end, yr.start)
        label_margin == LabelMargin(opts)
        board_width == BoardExtent(width, label_margin)
        board_height == BoardExtent(height, label_margin)
        offset == BOARD_MARGIN + label_margin
    IN  [viewBox |-> <<0, 0, opts.viewbox_width,
                       <<opts.viewbox_width * board_height, board_width>> >>,
         width |-> opts.viewbox_width,
         clip |-> [x |-> xr.start * Unit - 500, y |-> yr.start * Unit - 500,
                   width |-> width * Unit, height |-> height * Unit],
         scale |-> <<opts.viewbox_width * Unit, board_width>>,
         board_view |-> <<offset - xr.start * Unit, offset - yr.start * Unit>>,
         board |-> build_board(g, opts),
         board_labels |->
            IF opts.draw_board_labels
            THEN Some(draw_board_labels(xr, LabelRows(g.size, height, yr), opts.style))
            ELSE None]

(* --------------------------- range resolver --------------------------- *)
Interval(a, b) == [start |-> a, end |-> b]

get_ranges(range, g) ==
    IF range.kind = "FullBoard"
    THEN Some(<<Interval(0, g.size[1]), Interval(0, g.size[2])>>)
    ELSE IF /\ range.x.start < range.x.end /\ range.x.end <= g.size[1]
            /\ range.y.start < range.y.end /\ range.y.end <= g.size[2]
         THEN Some(<<range.x, range.y>>)
         ELSE None

(* ------------------------------ make_svg ------------------------------ *)
Fail(err) ==
    /\ result' = err
    /\ pc' = "done"

Parse ==
    /\ pc = "parse"
    /\ IF sgf.valid
       THEN pc' = "select" /\ UNCHANGED result
       ELSE Fail("ParseError")
    /\ UNCHANGED <<sgf, options, goban, x_range, y_range, doc, underflow>>


(* variant: a missing node is silently defaulted *)
FromNodeDefaulted ==
    /\ pc = "select"
    /\ goban' = Some(sgf.board)
    /\ pc' = "ranges"
    /\ UNCHANGED <<sgf, options, x_range, y_range, result, doc, underflow>>

FromNode ==
    /\ pc = "select"
    /\ IF sgf.has_node
       THEN goban' = Some(sgf.board) /\ pc' = "ranges" /\ UNCHANGED result
       ELSE Fail("NodeError") /\ UNCHANGED goban
    /\ UNCHANGED <<sgf, options, x_range, y_range, doc, underflow>>

GetRanges ==
    /\ pc = "ranges"
    /\ LET r == get_ranges(options.goban_range, goban[1])
       IN  IF r # None
           THEN /\ x_range' = Some(r[1][1])
                /\ y_range' = Some(r[1][2])
                /\ pc' = "check"
                /\ UNCHANGED result
           ELSE Fail("RangeError") /\ UNCHANGED <<x_range, y_range>>
    /\ UNCHANGED <<sgf, options, goban, doc, underflow>>

CheckLabels ==
    /\ pc = "check"
    /\ LET width == U8Sub(x_range[1].end, x_range[1].start)
           height == U8Sub(y_range[1].end, y_range[1].start)
       IN  IF options.draw_board_labels /\ Unlabellable(width, height)
           THEN Fail("UnlabellableRange")
           ELSE pc' = "compose" /\ UNCHANGED result
    /\ UNCHANGED <<sgf, options, goban, x_range, y_range, doc, underflow>>

Compose ==
    /\ pc = "compose"
    /\ doc' = Some(Document(goban[1], options, x_range[1], y_range[1]))
    /\ underflow' = (options.draw_move_numbers /\ Underflows(goban[1], options))
    /\ result' = "Ok"
    /\ pc' = "done"
    /\ UNCHANGED <<sgf, options, goban, x_range, y_range>>

Next == Parse \/ FromNode \/ GetRanges \/ CheckLabels \/ Compose

(* ------------------------------ inputs -------------------------------- *)
EmptyGoban(size) ==
    [size |-> size, stones |-> <<>>, move_numbers |-> <<>>, marks |-> <<>>,
     triangles |-> <<>>, circles |-> <<>>, squares |-> <<>>, selected |-> <<>>,
     dimmed |-> <<>>, labels |-> <<>>, lines |-> <<>>, arrows |-> <<>>]

DefaultOptions ==
    [goban_range |-> [kind |-> "FullBoard"], style |-> "Simple", viewbox_width |-> 800,
     draw_board_labels |-> TRUE, draw_move_numbers |-> FALSE, draw_marks |-> TRUE,
     draw_triangles |-> TRUE, draw_circles |-> TRUE, draw_squares |-> TRUE,
     draw_selected |-> TRUE, draw_dimmed |-> TRUE, draw_labels |-> TRUE,
     draw_lines |-> TRUE, draw_arrows |-> TRUE, first_move_number |-> 1]

Ranged(xr, yr) == [kind |-> "Ranged", x |-> xr, y |-> yr]

Intervals(n) == {iv \in [start : 0..n, end : 0..n] : iv.start < iv.end}

Start ==
    /\ pc = "parse"
    /\ goban = None
    /\ x_range = None
    /\ y_range = None
    /\ result = "Pending"
    /\ doc = None
    /\ underflow = FALSE

(* one stone carrying a mark and a selection, and one entry in every other layer *)
DemoGoban(size) ==
    [EmptyGoban(size) EXCEPT
        !.stones = << <<<<0, 0>>, "Black">> >>,
        !.move_numbers = << <<<<0, 0>>, <<1>>>> >>,
        !.marks = << <<0, 0>> >>,
        !.selected = << <<0, 0>> >>,
        !.triangles = << <<1, 0>> >>,
        !.circles = << <<1, 0>> >>,
        !.squares = << <<1, 0>> >>,
        !.dimmed = << <<0, 1>> >>,
        !.labels = << <<<<1, 1>>, <<ByteA>>>> >>,
        !.lines = << <<<<0, 0>>, <<1, 1>>>> >>,
        !.arrows = << <<<<1, 0>>, <<0, 1>>>> >>]

InitFlags ==
    /\ Start
    /\ \E v \in BOOLEAN, h \in BOOLEAN, w \in {2, MaxCols} :
          sgf = [valid |-> v, has_node |-> h, board |-> DemoGoban(<<w, 2>>)]
    /\ \E l \in BOOLEAN, f \in [1..11 -> BOOLEAN],
          r \in {[kind |-> "FullBoard"], Ranged(Interval(0, 3), Interval(0, 2))} :
          options = [DefaultOptions EXCEPT
              !.goban_range = r, !.draw_board_labels = l,
              !.draw_move_numbers = f[1], !.draw_marks = f[2], !.draw_triangles = f[3],
              !.draw_circles = f[4], !.draw_squares = f[5], !.draw_selected = f[6],
              !.draw_dimmed = f[7], !.draw_labels = f[8], !.draw_lines = f[9],
              !.draw_arrows = f[10], !.style = IF f[11] THEN "Fancy" ELSE "Simple"]

SpecFlags == InitFlags /\ [][Next]_vars

RowSizes == {1, 2, 3, 19, MaxRows}
ViewboxWidths == {1, 800}

RangeCase(size, xr, yr, l, vw) ==
    /\ sgf = [valid |-> TRUE, has_node |-> TRUE, board |-> EmptyGoban(size)]
    /\ options = [DefaultOptions EXCEPT !.goban_range = Ranged(xr, yr),
                                        !.draw_board_labels = l, !.viewbox_width = vw]

InitRange ==
    /\ Start
    /\ \/ \E w \in 1..MaxCols, h \in {2}, l \in BOOLEAN, vw \in ViewboxWidths :
            \E xr \in Intervals(w), yr \in Intervals(h) :
                RangeCase(<<w, h>>, xr, yr, l, vw)
       \/ \E h \in RowSizes, l \in BOOLEAN :
            \E xr \in Intervals(2), yr \in Intervals(h) :
                RangeCase(<<2, h>>, xr, yr, l, 800)
       \/ \E c \in (MaxLabelWidth - 1)..MaxCols, r \in (MaxLabelHeight - 1)..MaxRows,
             l \in BOOLEAN :
                RangeCase(<<MaxCols, MaxRows>>, Interval(0, c), Interval(0, r), l, 800)
       \/ \E n \in 1..MaxCols, l \in BOOLEAN, vw \in ViewboxWidths :
            /\ sgf = [valid |-> TRUE, has_node |-> TRUE, board |-> EmptyGoban(<<n, n>>)]
            /\ options = [DefaultOptions EXCEPT !.draw_board_labels = l,
                                                !.viewbox_width = vw]

SpecRange == InitRange /\ [][Next]_vars

Points == {<<0, 0>>, <<0, 1>>, <<1, 0>>, <<1, 1>>}
MovePoints == {<<0, 1>>, <<1, 0>>}

(* iteration orders of a collection of at most two of the given entries *)
Orders(S) == {<<>>} \cup {<<a>> : a \in S} \cup {<<a, b>> : a, b \in S}

DistinctKeys(s) == \A i, j \in 1..Len(s) : i # j => s[i][1] # s[j][1]
Distinct(s) == \A i, j \in 1..Len(s) : i # j => s[i] # s[j]

Histories(k) == {<<a>> : a \in 0..k} \cup {<<a, b>> : a, b \in 0..k}

StoneMaps ==
    { <<>>,
      << <<<<0, 1>>, "Black">> >>,
      << <<<<0, 1>>, "Black">>, <<<<1, 0>>, "White">> >>,
      << <<<<1, 0>>, "White">>, <<<<0, 1>>, "Black">> >> }

MoveMaps ==
    {m \in Orders(MovePoints \X Histories(MaxSmallNumber)) : DistinctKeys(m)}
    \cup {<< <<<<0, 1>>, h>> >> : h \in
            {<<n>> : n \in 0..MaxMoveNumber}
            \cup {<<k, n>> : k \in 0..MaxSmallNumber, n \in 0..MaxMoveNumber}
            \cup {<<n, k>> : k \in 0..MaxSmallNumber, n \in 0..MaxMoveNumber}}

PointOrders == {s \in Orders(Points) : Distinct(s)}
LabelMaps == {s \in Orders(Points \X {<<ByteA>>, <<ByteB, ByteA, ByteI>>}) : DistinctKeys(s)}
PairOrders == {s \in Orders(Points \X Points) : Distinct(s)}

BoardCase(g, first, style) ==
    /\ sgf = [valid |-> TRUE, has_node |-> TRUE, board |-> g]
    /\ options = [DefaultOptions EXCEPT !.draw_move_numbers = TRUE,
                                        !.first_move_number = first, !.style = style]

InitBoard ==
    /\ Start
    /\ \E st \in StoneMaps :
        LET g == [EmptyGoban(<<2, 2>>) EXCEPT !.stones = st]
        IN  \/ \E m \in MoveMaps, first \in 0..MaxFirst :
                    BoardCase([g EXCEPT !.move_numbers = m], first, "Simple")
            \/ \E style \in {"Simple", "Minimalist", "Fancy"} : BoardCase(g, 1, style)
            \/ \E s \in PointOrders :
                    \/ BoardCase([g EXCEPT !.marks = s], 1, "Simple")
                    \/ BoardCase([g EXCEPT !.triangles = s], 1, "Simple")
                    \/ BoardCase([g EXCEPT !.circles = s], 1, "Simple")
                    \/ BoardCase([g EXCEPT !.squares = s], 1, "Simple")
                    \/ BoardCase([g EXCEPT !.selected = s], 1, "Simple")
                    \/ BoardCase([g EXCEPT !.dimmed = s], 1, "Simple")
            \/ \E s \in LabelMaps : BoardCase([g EXCEPT !.labels = s], 1, "Simple")
            \/ \E s \in PairOrders :
                    \/ BoardCase([g EXCEPT !.lines = s], 1, "Simple")
                    \/ BoardCase([g EXCEPT !.arrows = s], 1, "Simple")

SpecBoard == InitBoard /\ [][Next]_vars

MaxClipSize == 3

(* one stone anywhere on a small board, every range of that board, every style *)
InitClip ==
    /\ Start
    /\ \E w \in 1..MaxClipSize, h \in 1..MaxClipSize :
        \E xr \in Intervals(w), yr \in Intervals(h), px \in 0..(w - 1), py \in 0..(h - 1),
           color \in {"Black", "White"}, style \in {"Simple", "Minimalist", "Fancy"},
           l \in BOOLEAN :
            /\ sgf = [valid |-> TRUE, has_node |-> TRUE,
                      board |-> [EmptyGoban(<<w, h>>) EXCEPT
                                    !.stones = << <<<<px, py>>, color>> >>]]
            /\ options = [DefaultOptions EXCEPT !.goban_range = Ranged(xr, yr),
                                                !.draw_board_labels = l, !.style = style]

SpecClip == InitClip /\ [][Next]_vars

(* ============================== properties ============================ *)
Rendered == pc = "done" /\ result = "Ok"

LayerIds(board) == [i \in 1..Len(board) |-> board[i].id]

HasLayer(id) == \E i \in 1..Len(doc[1].board) : doc[1].board[i].id = id

LayerOf(id) == doc[1].board[CHOOSE i \in 1..Len(doc[1].board) : doc[1].board[i].id = id]

IndexOfLayer(id) == CHOOSE i \in 1..Len(doc[1].board) : doc[1].board[i].id = id

PermsOf(s) ==
    IF s = <<>> THEN {<<>>}
    ELSE {[i \in 1..Len(s) |-> s[f[i]]] : f \in Permutations(1..Len(s))}

IsDecimal(text) ==
    /\ Len(text) >= 1
    /\ \A i \in 1..Len(text) : text[i] \in Byte0..(Byte0 + 9)
    /\ (Len(text) > 1 => text[1] # Byte0)

RECURSIVE DecValue(_)
DecValue(text) ==
    IF text = <<>> THEN 0
    ELSE 10 * DecValue(SubSeq(text, 1, Len(text) - 1)) + (Last(text) - Byte0)

(* the move-number elements drawn at point p *)
NumbersAt(p) ==
    {i \in 1..Len(LayerOf("move-numbers").elems) :
        /\ LayerOf("move-numbers").elems[i].x = p[1] * Unit
        /\ LayerOf("move-numbers").elems[i].y = p[2] * Unit}

(* C1: permuting the recorded numbers of any one point leaves the move-number
   layer unchanged (only the maximum of a point's history decides what is
   shown and whether it is shown). *)
C1_HistoryOrderIrrelevant ==
    Rendered /\ options.draw_move_numbers =>
        \A i \in 1..Len(goban[1].move_numbers) :
            \A h \in PermsOf(goban[1].move_numbers[i][2]) :
                build_move_numbers_group(
                    [goban[1] EXCEPT !.move_numbers[i][2] = h], options)
                = LayerOf("move-numbers")

(* C2: with board-edge labels requested, a resolved range fails with
   UnlabellableRange exactly when it is wider than 25 columns or taller than
   99 rows; a range of at most 25 x 99 renders. *)
C2_UnlabellableRange ==
    pc = "done" /\ x_range # None /\ options.draw_board_labels =>
        LET width == x_range[1].end - x_range[1].start
            height == y_range[1].end - y_range[1].start
        IN  /\ (width > 25 \/ height > 99) <=> result = "UnlabellableRange"
            /\ (width <= 25 /\ height <= 99) <=> result = "Ok"
            /\ result = "UnlabellableRange" => doc = None

C2_Witness ==
    /\ pc = "done"
    /\ result = "UnlabellableRange"
    /\ options.draw_board_labels
    /\ x_range[1].end - x_range[1].start = 26
    /\ y_range[1].end - y_range[1].start = 99

LayerOrder ==
    << "lines", "stones", "move-numbers", "markup-marks", "markup-triangles",
       "markup-circles", "markup-squares", "markup-selected", "markup-dimmed",
       "markup-labels", "markup-lines", "markup-arrows" >>

LayerEnabled(id) ==
    CASE id = "lines" -> TRUE
      [] id = "stones" -> TRUE
      [] id = "move-numbers" -> options.draw_move_numbers
      [] id = "markup-marks" -> options.draw_marks
      [] id = "markup-triangles" -> options.draw_triangles
      [] id = "markup-circles" -> options.draw_circles
      [] id = "markup-squares" -> options.draw_squares
      [] id = "markup-selected" -> options.draw_selected
      [] id = "markup-dimmed" -> options.draw_dimmed
      [] id = "markup-labels" -> options.draw_labels
      [] id = "markup-lines" -> options.draw_lines
      [] id = "markup-arrows" -> options.draw_arrows

(* C3: the layers of the board group are the enabled ones, each once, in the
   fixed back-to-front order, whatever subset of the draw flags is set; the
   marks layer is above the stones and the selection layer above the marks. *)
C3_LayerOrder ==
    Rendered =>
        /\ LayerIds(doc[1].board) = SelectSeq(LayerOrder, LayerEnabled)
        /\ options.draw_marks =>
                IndexOfLayer("stones") < IndexOfLayer("markup-marks")
        /\ options.draw_marks /\ options.draw_selected =>
                IndexOfLayer("markup-marks") < IndexOfLayer("markup-selected")

C3_Witness ==
    /\ Rendered
    /\ options.draw_marks /\ options.draw_selected
    /\ ~options.draw_move_numbers /\ ~options.draw_triangles /\ ~options.draw_dimmed
    /\ LayerOf("stones").elems # <<>>
    /\ LayerOf("markup-marks").elems[1].x = 0
    /\ LayerOf("markup-selected").elems[1].x = 0
    /\ Len(doc[1].board) = 9

(* C4: every displayed move number is ((n - first_move_number) mod 99) + 1
   for a recorded n >= first_move_number and lies in 1..99; a point with the
   single recorded number n shows exactly that value (first_move_number = 1:
   1 -> 1, 99 -> 99, 100 -> 1, 198 -> 99). *)
C4_Wraparound ==
    Rendered /\ options.draw_move_numbers =>
        \A e \in Range(goban[1].move_numbers) :
            \A i \in NumbersAt(e[1]) :
                LET text == LayerOf("move-numbers").elems[i].text
                    first == options.first_move_number
                IN  /\ IsDecimal(text)
                    /\ DecValue(text) \in 1..99
                    /\ \E n \in Range(e[2]) :
                            n >= first /\ DecValue(text) = ((n - first) % 99) + 1
                    /\ Len(e[2]) = 1 =>
                            DecValue(text) = ((e[2][1] - first) % 99) + 1
                    /\ first = 1 /\ e[2] = <<1>> => text = <<Byte0 + 1>>
                    /\ first = 1 /\ e[2] = <<99>> => text = <<Byte0 + 9, Byte0 + 9>>
                    /\ first = 1 /\ e[2] = <<100>> => text = <<Byte0 + 1>>
                    /\ first = 1 /\ e[2] = <<198>> => text = <<Byte0 + 9, Byte0 + 9>>

C4_Witness ==
    /\ Rendered
    /\ options.first_move_number = 1
    /\ goban[1].move_numbers = << <<<<0, 1>>, <<100>>>> >>
    /\ Len(LayerOf("move-numbers").elems) = 1
    /\ LayerOf("move-numbers").elems[1].text = <<Byte0 + 1>>

(* C5: every layer of the board group is a function of the contents of the
   board-state collections only: iterating any collection in another order
   yields the same board group. *)
C5_IterationOrderIrrelevant ==
    Rendered =>
        \A g \in [size : {goban[1].size},
                  stones : PermsOf(goban[1].stones),
                  move_numbers : PermsOf(goban[1].move_numbers),
                  marks : PermsOf(goban[1].marks),
                  triangles : PermsOf(goban[1].triangles),
                  circles : PermsOf(goban[1].circles),
                  squares : PermsOf(goban[1].squares),
                  selected : PermsOf(goban[1].selected),
                  dimmed : PermsOf(goban[1].dimmed),
                  labels : PermsOf(goban[1].labels),
                  lines : PermsOf(goban[1].lines),
                  arrows : PermsOf(goban[1].arrows)] :
            build_board(g, options) = doc[1].board

(* the row labels drawn level with board row r (0-based from the top) *)
RowLabelsAt(r) ==
    LET labels == doc[1].board_labels[1]
    IN  {i \in 1..Len(labels.column_labels) :
            labels.column_labels[i].y + labels.transform[2]
                = doc[1].board_view[2] + r * Unit}

(* the column labels drawn level with board column x (0-based from the left) *)
ColumnLabelsAt(x) ==
    LET labels == doc[1].board_labels[1]
    IN  {i \in 1..Len(labels.row_labels) :
            labels.row_labels[i].x + labels.transform[1]
                = doc[1].board_view[1] + x * Unit}

(* C6: with edge labels drawn, each row r of the resolved row interval has
   exactly one row label, and it reads H - r, the 1-based row number counted
   from the bottom edge of the full board of height H. *)
C6_RowLabels ==
    Rendered /\ options.draw_board_labels =>
        LET rows == doc[1].board_labels[1].column_labels
            H == goban[1].size[2]
        IN  /\ Len(rows) = y_range[1].end - y_range[1].start
            /\ \A r \in y_range[1].start..(y_range[1].end - 1) :
                    /\ Cardinality(RowLabelsAt(r)) = 1
                    /\ \A i \in RowLabelsAt(r) :
                            IsDecimal(rows[i].text) /\ DecValue(rows[i].text) = H - r

C6_Witness ==
    /\ Rendered
    /\ options.draw_board_labels
    /\ goban[1].size[2] = 19
    /\ y_range[1] = Interval(2, 5)
    /\ \E i \in RowLabelsAt(2) :
            doc[1].board_labels[1].column_labels[i].text = <<Byte0 + 1, Byte0 + 7>>

(* C7: with edge labels drawn, every column of the resolved column interval
   is labelled with one uppercase letter other than 'I', column 0 with 'A',
   column 7 with 'H', column 8 with 'J', and distinct columns get distinct
   letters. *)
C7_ColumnLetters ==
    Rendered /\ options.draw_board_labels =>
        LET cols == doc[1].board_labels[1].row_labels
        IN  /\ Len(cols) = x_range[1].end - x_range[1].start
            /\ \A x \in x_range[1].start..(x_range[1].end - 1) :
                    /\ Cardinality(ColumnLabelsAt(x)) = 1
                    /\ \A i \in ColumnLabelsAt(x) :
                            /\ Len(cols[i].text) = 1
                            /\ cols[i].text[1] \in (65..90) \ {73}
                            /\ x = 0 => cols[i].text[1] = 65
                            /\ x = 7 => cols[i].text[1] = 72
                            /\ x = 8 => cols[i].text[1] = 74
            /\ \A i, j \in 1..Len(cols) : i # j => cols[i].text # cols[j].text

(* C8: the fallible steps run in the order parse, node selection, range
   resolution, label-range check; the call ends at the first one that fails,
   with that step's error and without a document; a document is returned
   exactly when all four succeed. *)
C8_FirstFailureWins ==
    LET resolved == get_ranges(options.goban_range, sgf.board)
        expected ==
            IF ~sgf.valid THEN "ParseError"
            ELSE IF ~sgf.has_node THEN "NodeError"
            ELSE IF resolved = None THEN "RangeError"
            ELSE IF /\ options.draw_board_labels
                    /\ \/ resolved[1][1].end - resolved[1][1].start > 25
                       \/ resolved[1][2].end - resolved[1][2].start > 99
                 THEN "UnlabellableRange"
            ELSE "Ok"
    IN  /\ pc = "done" => result = expected
        /\ pc # "done" <=> result = "Pending"
        /\ doc # None <=> result = "Ok"
        /\ result = "ParseError" => goban = None
        /\ result \in {"ParseError", "NodeError", "RangeError"} => x_range = None

C8_Witness ==
    /\ pc = "done"
    /\ result = "NodeError"
    /\ sgf.valid /\ ~sgf.has_node
    /\ get_ranges(options.goban_range, sgf.board) = None
    /\ doc = None

(* C9: for a resolved range of c columns and r rows the extents are
   c - 1 + 2*0.64 + m and r - 1 + 2*0.64 + m, with m = 0.8 when edge labels
   are drawn and 0 otherwise; the viewBox is (0, 0, viewbox_width,
   viewbox_width * boardHeight / boardWidth); for c = r its height equals
   its width. *)
C9_CanvasSize ==
    Rendered =>
        LET c == x_range[1].end - x_range[1].start
            r == y_range[1].end - y_range[1].start
            m == IF options.draw_board_labels THEN 800 ELSE 0
            boardWidth == (c - 1) * 1000 + 2 * 640 + m
            boardHeight == (r - 1) * 1000 + 2 * 640 + m
            vw == options.viewbox_width
            vh == doc[1].viewBox[4]
        IN  /\ doc[1].viewBox[1] = 0 /\ doc[1].viewBox[2] = 0
            /\ doc[1].viewBox[3] = vw
            /\ vh = <<vw * boardHeight, boardWidth>>
            /\ (vw = 1 /\ c <= 40 /\ r <= 40) =>
                    vh[1] * boardWidth = vw * boardHeight * vh[2]
            /\ c = r => vh[1] = vw * vh[2]

C9_Witness ==
    /\ Rendered
    /\ options.draw_board_labels
    /\ goban[1].size = <<19, 19>>
    /\ x_range[1] = Interval(0, 19) /\ y_range[1] = Interval(0, 19)
    /\ doc[1].viewBox = <<0, 0, 800, <<800 * 20080, 20080>>>>

(* C10: a point whose shown number is below first_move_number gets no
   element: every move-number element displays a recorded number
   n >= first_move_number of its point, every point has at most one element,
   and n - first_move_number is never evaluated with n < first_move_number. *)
C10_BelowThresholdSuppressed ==
    Rendered /\ options.draw_move_numbers =>
        /\ ~underflow
        /\ Len(LayerOf("move-numbers").elems) <= Len(goban[1].move_numbers)
        /\ \A i \in 1..Len(LayerOf("move-numbers").elems) :
                \E e \in Range(goban[1].move_numbers) : i \in NumbersAt(e[1])
        /\ \A e \in Range(goban[1].move_numbers) :
                /\ Cardinality(NumbersAt(e[1])) <= 1
                /\ (\A n \in Range(e[2]) : n < options.first_move_number) =>
                        NumbersAt(e[1]) = {}
                /\ \A i \in NumbersAt(e[1]) :
                        \E n \in Range(e[2]) :
                            /\ n >= options.first_move_number
                            /\ LayerOf("move-numbers").elems[i].text
                                = to_string(((n - options.first_move_number) % 99) + 1)

C10_Witness ==
    /\ Rendered
    /\ options.first_move_number = 2
    /\ Len(goban[1].move_numbers) = 2
    /\ goban[1].move_numbers[1][2] = <<1>>
    /\ goban[1].move_numbers[2][2] = <<3>>
    /\ Len(LayerOf("move-numbers").elems) = 1
    /\ ~underflow

InRange(p) ==
    /\ x_range[1].start <= p[1] /\ p[1] < x_range[1].end
    /\ y_range[1].start <= p[2] /\ p[2] < y_range[1].end

InClip(x, y) ==
    /\ doc[1].clip.x <= x /\ x <= doc[1].clip.x + doc[1].clip.width
    /\ doc[1].clip.y <= y /\ y <= doc[1].clip.y + doc[1].clip.height

(* C11: the clip rectangle spans [x0 - 0.5, x1 - 0.5] x [y0 - 0.5, y1 - 0.5]
   for the resolved range [x0, x1) x [y0, y1); the centre of a board point is
   inside the clip exactly when the point is in the range; every disc drawn
   for a stone on an in-range point lies entirely within the clip. *)
C11_ClipMatchesRange ==
    Rendered =>
        /\ doc[1].clip.x = x_range[1].start * 1000 - 500
        /\ doc[1].clip.x + doc[1].clip.width = x_range[1].end * 1000 - 500
        /\ doc[1].clip.y = y_range[1].start * 1000 - 500
        /\ doc[1].clip.y + doc[1].clip.height = y_range[1].end * 1000 - 500
        /\ \A x \in 0..(goban[1].size[1] - 1), y \in 0..(goban[1].size[2] - 1) :
                InClip(x * 1000, y * 1000) <=> InRange(<<x, y>>)
        /\ Len(LayerOf("stones").elems) = Len(goban[1].stones)
        /\ \A i \in 1..Len(goban[1].stones) :
                InRange(goban[1].stones[i][1]) =>
                    \A k \in 1..Len(LayerOf("stones").elems[i].circles) :
                        LET c == LayerOf("stones").elems[i].circles[k]
                        IN  /\ c.r \in 475..480
                            /\ InClip(c.cx - c.r, c.cy - c.r)
                            /\ InClip(c.cx + c.r, c.cy + c.r)

C11_Witness ==
    /\ Rendered
    /\ options.style = "Fancy"
    /\ goban[1].size = <<3, 3>>
    /\ x_range[1] = Interval(1, 2) /\ y_range[1] = Interval(1, 2)
    /\ goban[1].stones[1][1] = <<1, 1>>
    /\ Len(LayerOf("stones").elems[1].circles) = 2
    /\ LayerOf("stones").elems[1].circles[1].cx + 475 = doc[1].clip.x + doc[1].clip.width

(* the letter code that names column x: A.. with I skipped *)
ColumnName(x) == IF x < 8 THEN <<65 + x>> ELSE <<66 + x>>

(* C12: with edge labels drawn, the label naming column x of the resolved
   range is at the horizontal coordinate of grid column x after the
   board-view translation, LABEL_MARGIN + (x - x_start) + BOARD_MARGIN, and
   the label naming row r is at the vertical coordinate of grid row r; with
   or without labels the first in-range point lands at
   (BOARD_MARGIN + label_margin, BOARD_MARGIN + label_margin). *)
C12_LabelsAlignedWithGrid ==
    Rendered =>
        LET m == IF options.draw_board_labels THEN 800 ELSE 0
            x0 == x_range[1].start
            y0 == y_range[1].start
            H == goban[1].size[2]
        IN  /\ doc[1].board_view[1] + x0 * 1000 = 640 + m
            /\ doc[1].board_view[2] + y0 * 1000 = 640 + m
            /\ options.draw_board_labels =>
                LET labels == doc[1].board_labels[1]
                IN  /\ \A x \in x0..(x_range[1].end - 1) :
                        /\ \E i \in 1..Len(labels.row_labels) :
                                labels.row_labels[i].text = ColumnName(x)
                        /\ \A i \in 1..Len(labels.row_labels) :
                                labels.row_labels[i].text = ColumnName(x) =>
                                    /\ labels.transform[1] + labels.row_labels[i].x
                                        = 800 + (x - x0) * 1000 + 640
                                    /\ labels.transform[1] + labels.row_labels[i].x
                                        = doc[1].board_view[1] + x * 1000
                    /\ {H - DecValue(labels.column_labels[i].text) :
                            i \in 1..Len(labels.column_labels)}
                        = y0..(y_range[1].end - 1)
                    /\ \A i \in 1..Len(labels.column_labels) :
                        LET r == H - DecValue(labels.column_labels[i].text)
                        IN  labels.transform[2] + labels.column_labels[i].y
                                = doc[1].board_view[2] + r * 1000

C12_Witness ==
    /\ Rendered
    /\ options.draw_board_labels
    /\ goban[1].size[2] = 19
    /\ y_range[1] = Interval(2, 5)
    /\ doc[1].board_view[2] = 1440 - 2000
    /\ \E i \in 1..3 :
            /\ doc[1].board_labels[1].column_labels[i].text = <<Byte0 + 1, Byte0 + 5>>
            /\ doc[1].board_labels[1].column_labels[i].y = 2000 + 640

====
